---- MODULE Spec2Model ----
(***************************************************************************)
(* ADPFManager (app/src/main/cpp/adpf_manager.{h,cpp}): the thermal and    *)
(* performance-hint coordinator of the ADPF game adaptability sample.      *)
(*                                                                         *)
(* The class is compiled under one of several __ANDROID_API__ levels and   *)
(* runs on a device of some API level; both are fixed for a behaviour and  *)
(* chosen in Init.  Platform calls are recorded, per operation, in the     *)
(* variable calls; the thermal listener invocations in notified.           *)
(***************************************************************************)
EXTENDS Integers, Sequences, FiniteSets, TLC

\* ---------------------------------------------------------------- bounds
MaxTime == 6          \* the monotonic clock runs over 1..MaxTime ticks
TicksPerSecond == 2   \* clock resolution of the model
MaxStatus == 2        \* thermal status values 0..MaxStatus
MaxThreads == 3       \* longest thread_ids_ vector explored
MaxSetApp == 2        \* number of SetApplication calls explored
OtherTarget == 8333333 \* a target duration other than the default (120Hz)

\* ------------------------------------------------------ program constants
NULL == 0
DEFAULT_TARGET_NS == 16666666
kThermalHeadroomUpdateThreshold == 1 * TicksPerSecond

\* Opaque non-null values the platform hands back.
ThermalManagerHandle == 11
PowerServiceRef == 12
HintManagerHandle == 13
HintServiceRef == 14
MethodId == 1

\* The __ANDROID_API__ levels the source distinguishes, and device levels on
\* each side of its two run-time tests (>= 31, and setThreads from 34 on).
ApiLevels == {29, 30, 31, 33, 34}
DeviceLevels == {30, 33, 34}
Statuses == 0..MaxStatus
Listeners == {1, 2}
MainTid == 100
Tids == {MainTid, 200}
Targets == {DEFAULT_TARGET_NS, OtherTarget}
Headrooms == {0, 1}
NoTime == 0 - 1

VARIABLES
  buildApi, deviceApi,            \* __ANDROID_API__, android_get_device_api_level()
  now,                            \* std::chrono::high_resolution_clock::now()
  destroyed,                      \* ~ADPFManager has run
  app_,
  thermal_manager_, thermal_status_, thermal_headroom_, last_clock_,
  obj_power_service_, get_thermal_headroom_,
  thermalListener,
  perf_start_, thread_ids_,
  hint_manager_, hint_session_, last_target_,
  obj_perfhint_service_, obj_perfhint_session_,
  create_hint_session_, set_threads_,
  report_actual_work_duration_, update_target_work_duration_,
  \* the platform and the observations of the last operation
  open,                           \* sessions created and not yet closed/released
  cbRegistered,                   \* thermal_callback is registered with the thermal manager
  pending,                        \* a Java exception is pending on the JNI environment
  lastOp,                         \* the operation that ran last, with its argument
  prevSession,                    \* the session referred to when that operation began
  calls,                          \* platform calls issued by the last operation
  notified,                       \* listener invocations made by the last operation
  refreshed,                      \* UpdateThermalStatusHeadRoom calls of the last operation
  \* history
  setApps,                        \* number of SetApplication calls so far
  argHist,                        \* the last two values passed to SetThermalStatus
  regHist,                        \* the arguments of the last two SetThermalListener calls
  refreshAt,                      \* times of the last two headroom refreshes
  beginAt,                        \* time of the Begin not yet ended, else NoTime
  endFrom,                        \* the Begin time the last End was paired with
  lastEndTarget,                  \* the target last passed to EndPerfHintSession
  degraded,                       \* the last SetApplication left no session
  follow,                         \* a followed Add(tid): tid, the list without it
  beginFirst,                     \* time of the first Begin since the last End, else NoTime
  endFirst,                       \* beginFirst as the last End found it
  lastBegin,                      \* time of the latest Begin ever, 0 (the epoch) if none
  \* SetThermalStatus run statement by statement on two threads
  pc,                             \* each thread's position in SetThermalStatus
  loc,                            \* each thread's argument, prev_status_ and listener read
  raceLog,                        \* the listener invocations, in the order made
  raceBase,                       \* thermal_status_ when the first of the calls began
  \* EndPerfHintSession on the frame-loop thread beside Add/Remove on a worker
  fpc,                            \* the frame-loop thread's position in EndPerfHintSession
  floc,                           \* its target and the session handle it has loaded
  wpc,                            \* the worker's position in Add/Remove
  sent                            \* the calls of the current End: function, handle, handle open?

cfgVars == <<buildApi, deviceApi>>
thermalVars == <<thermal_manager_, thermal_status_, thermal_headroom_, last_clock_,
                 obj_power_service_, get_thermal_headroom_, thermalListener>>
hintVars == <<perf_start_, thread_ids_, hint_manager_, hint_session_, last_target_,
              obj_perfhint_service_, obj_perfhint_session_, create_hint_session_,
              set_threads_, report_actual_work_duration_,
              update_target_work_duration_>>
platformVars == <<open, cbRegistered, pending>>
obsVars == <<lastOp, prevSession, calls, notified, refreshed>>
histVars == <<setApps, argHist, regHist, refreshAt, beginAt, endFrom,
              lastEndTarget, degraded, follow>>
frameHist == <<beginFirst, endFirst, lastBegin>>
swapVars == <<fpc, floc, wpc, sent>>
raceVars == <<pc, loc, raceLog, raceBase, swapVars>>
vars == <<cfgVars, now, destroyed, app_, thermalVars, hintVars, platformVars,
          obsVars, histVars, frameHist, raceVars>>

\* ---------------------------------------------------------------- helpers
Range(s) == {s[i] : i \in 1..Len(s)}

\* Erase as it would be if the last element were dropped, whatever it is.
Erase_PopBack(s, tid) ==
  IF s = <<>> THEN <<>> ELSE SubSeq(s, 1, Len(s) - 1)

RECURSIVE Erase(_, _)
\* std::remove + erase: drops every element equal to tid, keeps the order.
Erase(s, tid) ==
  IF s = <<>> THEN <<>>
  ELSE IF Head(s) = tid THEN Erase(Tail(s), tid)
       ELSE <<Head(s)>> \o Erase(Tail(s), tid)

\* One platform call: the function, the handle it is made on, the thread array
\* and the scalar argument it carries.
Call(fn, h, tids, arg) == [fn |-> fn, h |-> h, tids |-> tids, arg |-> arg]
Op(name, arg) == [op |-> name, arg |-> arg]

\* Two threads that deliver a thermal status, such as the Java thread calling
\* nativeThermalStatusChanged and the platform thread calling thermal_callback.
Threads == {"T1", "T2"}
NoLocal == [arg |-> 0, prev |-> 0, l |-> NULL]
NoFrameLocal == [target |-> 0, h |-> NULL, loaded |-> FALSE]

\* No Add is being followed.
NoFollow == [tid |-> NULL, base |-> <<>>, done |-> FALSE]

Select(s, fn) == SelectSeq(s, LAMBDA c : c.fn = fn)

\* The thread array of the synchronization (setThreads, or the creation of the
\* replacing session) the last operation made.
Synced ==
  LET sync == SelectSeq(calls, LAMBDA c : c.fn \in {"setThreads", "createSession"})
  IN sync[Len(sync)].tids

\* The call counts of the last operation.
Count(fns) == Len(SelectSeq(calls, LAMBDA c : c.fn \in fns))
CountOn(fns, h) == Len(SelectSeq(calls, LAMBDA c : c.fn \in fns /\ c.h = h))

\* What a session creation can return: NULL when the platform refuses, else a
\* session that is not open and is not the one the coordinator last referred to
\* (identities of closed sessions are handed out again).
NewSessionResults ==
  LET used == open \cup {hint_session_, obj_perfhint_session_}
  IN {NULL} \cup {CHOOSE n \in 1..(Cardinality(used) + 1) :
                    /\ n \notin used
                    /\ \A m \in 1..(n - 1) : m \in used}

\* ------------------------------------------------------------------- Init
Init ==
  /\ buildApi \in ApiLevels
  /\ deviceApi \in {d \in DeviceLevels : d >= buildApi}
  /\ now = 1
  /\ destroyed = FALSE
  /\ app_ = NULL
  /\ thermal_manager_ = NULL
  /\ thermal_status_ = 0
  /\ thermal_headroom_ = 0
  /\ last_clock_ = 1
  /\ obj_power_service_ = NULL
  /\ get_thermal_headroom_ = 0
  /\ thermalListener = NULL
  /\ perf_start_ = 0
  /\ thread_ids_ = <<>>
  /\ hint_manager_ = NULL
  /\ hint_session_ = NULL
  /\ last_target_ = DEFAULT_TARGET_NS
  /\ obj_perfhint_service_ = NULL
  /\ obj_perfhint_session_ = NULL
  /\ create_hint_session_ = 0
  /\ set_threads_ = 0
  /\ report_actual_work_duration_ = 0
  /\ update_target_work_duration_ = 0
  /\ open = {}
  /\ lastOp = Op("ctor", 0)
  /\ prevSession = NULL
  /\ calls = <<>>
  /\ notified = <<>>
  /\ refreshed = 0
  /\ setApps = 0
  /\ argHist = <<0, 0>>
  /\ regHist = <<NULL, NULL>>
  /\ refreshAt = <<NoTime, 1>>
  /\ beginAt = NoTime
  /\ endFrom = NoTime
  /\ lastEndTarget = DEFAULT_TARGET_NS
  /\ degraded = FALSE
  /\ follow = NoFollow
  /\ cbRegistered = FALSE
  /\ pending = FALSE
  /\ beginFirst = NoTime
  /\ endFirst = NoTime
  /\ lastBegin = 0
  /\ pc = [t \in Threads |-> "idle"]
  /\ loc = [t \in Threads |-> NoLocal]
  /\ raceLog = <<>>
  /\ raceBase = 0
  /\ fpc = "idle"
  /\ floc = NoFrameLocal
  /\ wpc = "idle"
  /\ sent = <<>>

\* The session the coordinator refers to, whichever field holds it.
Session == IF buildApi >= 33 THEN hint_session_ ELSE obj_perfhint_session_

\* The clock advances between calls; it never goes back (steady clock).
Tick ==
  /\ ~destroyed
  /\ now < MaxTime
  /\ now' = now + 1
  /\ lastOp' = Op("Tick", 0)
  /\ prevSession' = Session
  /\ calls' = <<>>
  /\ notified' = <<>>
  /\ refreshed' = 0
  /\ UNCHANGED <<cfgVars, raceVars, frameHist, destroyed, app_, thermalVars,
                 hintVars, platformVars, histVars>>

\* --------------------------------------------------------- thermal status
GetThermalStatus == thermal_status_
GetThermalHeadroom == thermal_headroom_

\* SetThermalStatus as it would be with unchanged notifications filtered out.
SetThermalStatus_Dedup(i) ==
  LET prev_status_ == thermal_status_
      current_status_ == i
  IN /\ ~destroyed
     /\ thermal_status_' = i
     /\ notified' = IF thermalListener # NULL /\ prev_status_ # current_status_
                    THEN <<[l |-> thermalListener, prev |-> prev_status_,
                            cur |-> current_status_]>>
                    ELSE <<>>
     /\ argHist' = <<argHist[2], i>>
     /\ lastOp' = Op("SetThermalStatus", i)
     /\ prevSession' = Session
     /\ calls' = <<>>
     /\ refreshed' = 0
     /\ UNCHANGED <<cfgVars, raceVars, frameHist, now, destroyed, app_, thermal_manager_,
                    thermal_headroom_, last_clock_, obj_power_service_,
                    get_thermal_headroom_, thermalListener, hintVars,
                    platformVars, setApps, regHist, refreshAt, beginAt,
                    endFrom, lastEndTarget, degraded, follow>>

SetThermalStatus(i) ==
  LET prev_status_ == thermal_status_
      current_status_ == i
  IN /\ ~destroyed
     /\ thermal_status_' = i
     /\ notified' = IF thermalListener # NULL
                    THEN <<[l |-> thermalListener, prev |-> prev_status_,
                            cur |-> current_status_]>>
                    ELSE <<>>
     /\ argHist' = <<argHist[2], i>>
     /\ lastOp' = Op("SetThermalStatus", i)
     /\ prevSession' = Session
     /\ calls' = <<>>
     /\ refreshed' = 0
     /\ UNCHANGED <<cfgVars, raceVars, frameHist, now, destroyed, app_, thermal_manager_,
                    thermal_headroom_, last_clock_, obj_power_service_,
                    get_thermal_headroom_, thermalListener, hintVars,
                    platformVars, setApps, regHist, refreshAt, beginAt,
                    endFrom, lastEndTarget, degraded, follow>>

\* SetThermalListener as it would be if a registered listener were kept.
SetThermalListener_FirstWins(listener) ==
  /\ ~destroyed
  /\ thermalListener' = IF thermalListener = NULL THEN listener ELSE thermalListener
  /\ regHist' = <<regHist[2], listener>>
  /\ lastOp' = Op("SetThermalListener", listener)
  /\ prevSession' = Session
  /\ calls' = <<>>
  /\ notified' = <<>>
  /\ refreshed' = 0
  /\ UNCHANGED <<cfgVars, raceVars, frameHist, now, destroyed, app_,
                    thermal_manager_, thermal_status_,
                 thermal_headroom_, last_clock_, obj_power_service_,
                 get_thermal_headroom_, hintVars, platformVars, setApps, argHist,
                 refreshAt, beginAt, endFrom, lastEndTarget, degraded, follow>>

SetThermalListener(listener) ==
  /\ ~destroyed
  /\ thermalListener' = listener
  /\ regHist' = <<regHist[2], listener>>
  /\ lastOp' = Op("SetThermalListener", listener)
  /\ prevSession' = Session
  /\ calls' = <<>>
  /\ notified' = <<>>
  /\ refreshed' = 0
  /\ UNCHANGED <<cfgVars, raceVars, frameHist, now, destroyed, app_,
                    thermal_manager_, thermal_status_,
                 thermal_headroom_, last_clock_, obj_power_service_,
                 get_thermal_headroom_, hintVars, platformVars, setApps, argHist,
                 refreshAt, beginAt, endFrom, lastEndTarget, degraded, follow>>

\* The two entries the platform pushes a status through: the JNI method the
\* Java listener calls, and the native callback, which the platform calls
\* while it is registered.
nativeThermalStatusChanged(thermalState) == SetThermalStatus(thermalState)

thermal_callback(status) ==
  /\ cbRegistered
  /\ SetThermalStatus(status)

\* GetThermalManager(), which exists from __ANDROID_API__ 30 on.
GetThermalManager == thermal_manager_

\* nativeRegisterThermalStatusListener as it would be without the nullptr
\* test.
nativeRegisterThermalStatusListener_Unguarded ==
  LET manager == GetThermalManager
  IN /\ ~destroyed
     /\ IF buildApi >= 30
        THEN /\ calls' = <<Call("AThermal_registerThermalStatusListener",
                                manager, <<>>, 0)>>
             /\ cbRegistered' = TRUE
        ELSE /\ calls' = <<>>
             /\ UNCHANGED cbRegistered
     /\ lastOp' = Op("nativeRegisterThermalStatusListener", 0)
     /\ prevSession' = Session
     /\ notified' = <<>>
     /\ refreshed' = 0
     /\ UNCHANGED <<cfgVars, raceVars, frameHist, now, destroyed, app_,
                    thermalVars, hintVars, open, pending, histVars>>

nativeRegisterThermalStatusListener ==
  LET manager == GetThermalManager
  IN /\ ~destroyed
     /\ IF buildApi >= 30 /\ manager # NULL
        THEN /\ calls' = <<Call("AThermal_registerThermalStatusListener",
                                manager, <<>>, 0)>>
             /\ cbRegistered' = TRUE
        ELSE /\ calls' = <<>>
             /\ UNCHANGED cbRegistered
     /\ lastOp' = Op("nativeRegisterThermalStatusListener", 0)
     /\ prevSession' = Session
     /\ notified' = <<>>
     /\ refreshed' = 0
     /\ UNCHANGED <<cfgVars, raceVars, frameHist, now, destroyed, app_,
                    thermalVars, hintVars, open, pending, histVars>>

nativeUnregisterThermalStatusListener ==
  LET manager == GetThermalManager
  IN /\ ~destroyed
     /\ IF buildApi >= 30 /\ manager # NULL
        THEN /\ calls' = <<Call("AThermal_unregisterThermalStatusListener",
                                manager, <<>>, 0)>>
             /\ cbRegistered' = FALSE
        ELSE /\ calls' = <<>>
             /\ UNCHANGED cbRegistered
     /\ lastOp' = Op("nativeUnregisterThermalStatusListener", 0)
     /\ prevSession' = Session
     /\ notified' = <<>>
     /\ refreshed' = 0
     /\ UNCHANGED <<cfgVars, raceVars, frameHist, now, destroyed, app_,
                    thermalVars, hintVars, open, pending, histVars>>

\* ------------------------------------------------------- thermal headroom
\* The new thermal_headroom_ and the platform query made to get it; h is the
\* value the platform answers with.
UpdateThermalStatusHeadRoom(h) ==
  IF buildApi >= 31 /\ deviceApi >= 31
  THEN [thermal_headroom_ |-> h,
        calls |-> <<Call("AThermal_getThermalHeadroom", thermal_manager_, <<>>,
                         kThermalHeadroomUpdateThreshold)>>]
  ELSE IF app_ = NULL \/ get_thermal_headroom_ = 0
  THEN [thermal_headroom_ |-> thermal_headroom_, calls |-> <<>>]
  ELSE [thermal_headroom_ |-> h,
        calls |-> <<Call("getThermalHeadroom", obj_power_service_, <<>>,
                         kThermalHeadroomUpdateThreshold)>>]

\* Monitor as it would be if a due call also passed the cached status through
\* the listener notification of SetThermalStatus.
Monitor_PollsStatus(h) ==
  LET current_clock == now
      past == current_clock - last_clock_
      upd == UpdateThermalStatusHeadRoom(h)
  IN /\ ~destroyed
     /\ IF past >= kThermalHeadroomUpdateThreshold
        THEN /\ thermal_headroom_' = upd.thermal_headroom_
             /\ calls' = upd.calls
             /\ refreshed' = 1
             /\ refreshAt' = <<refreshAt[2], now>>
             /\ last_clock_' = current_clock
             /\ notified' = IF thermalListener # NULL
                            THEN <<[l |-> thermalListener,
                                    prev |-> thermal_status_,
                                    cur |-> thermal_status_]>>
                            ELSE <<>>
        ELSE /\ calls' = <<>>
             /\ refreshed' = 0
             /\ notified' = <<>>
             /\ UNCHANGED <<thermal_headroom_, refreshAt, last_clock_>>
     /\ lastOp' = Op("Monitor", 0)
     /\ prevSession' = Session
     /\ UNCHANGED <<cfgVars, raceVars, frameHist, now, destroyed, app_,
                    thermal_manager_, thermal_status_,
                    obj_power_service_, get_thermal_headroom_, thermalListener,
                    hintVars, platformVars, setApps, argHist, regHist,
                    beginAt, endFrom, lastEndTarget, degraded, follow>>

\* Monitor as it would be if the time of the refresh were not kept.
Monitor_KeepsNoClock(h) ==
  LET current_clock == now
      past == current_clock - last_clock_
      upd == UpdateThermalStatusHeadRoom(h)
  IN /\ ~destroyed
     /\ IF past >= kThermalHeadroomUpdateThreshold
        THEN /\ thermal_headroom_' = upd.thermal_headroom_
             /\ calls' = upd.calls
             /\ refreshed' = 1
             /\ refreshAt' = <<refreshAt[2], now>>
             /\ UNCHANGED last_clock_
        ELSE /\ calls' = <<>>
             /\ refreshed' = 0
             /\ UNCHANGED <<thermal_headroom_, refreshAt, last_clock_>>
     /\ lastOp' = Op("Monitor", 0)
     /\ prevSession' = Session
     /\ notified' = <<>>
     /\ UNCHANGED <<cfgVars, raceVars, frameHist, now, destroyed, app_,
                    thermal_manager_, thermal_status_,
                    obj_power_service_, get_thermal_headroom_, thermalListener,
                    hintVars, platformVars, setApps, argHist, regHist,
                    beginAt, endFrom, lastEndTarget, degraded, follow>>

Monitor(h) ==
  LET current_clock == now
      past == current_clock - last_clock_
      upd == UpdateThermalStatusHeadRoom(h)
  IN /\ ~destroyed
     /\ IF past >= kThermalHeadroomUpdateThreshold
        THEN /\ thermal_headroom_' = upd.thermal_headroom_
             /\ calls' = upd.calls
             /\ refreshed' = 1
             /\ refreshAt' = <<refreshAt[2], now>>
             /\ last_clock_' = current_clock
        ELSE /\ calls' = <<>>
             /\ refreshed' = 0
             /\ UNCHANGED <<thermal_headroom_, refreshAt, last_clock_>>
     /\ lastOp' = Op("Monitor", 0)
     /\ prevSession' = Session
     /\ notified' = <<>>
     /\ UNCHANGED <<cfgVars, raceVars, frameHist, now, destroyed, app_,
                    thermal_manager_, thermal_status_,
                    obj_power_service_, get_thermal_headroom_, thermalListener,
                    hintVars, platformVars, setApps, argHist, regHist,
                    beginAt, endFrom, lastEndTarget, degraded, follow>>

\* --------------------------------------------------------- initialization
\* gettid() of the thread that runs SetApplication.
gettid == MainTid

\* acq: what AThermal_acquireManager returns; mid: what GetMethodID returns
\* for getThermalHeadroom.
InitializePowerManager(acq, mid) ==
  IF buildApi >= 30 /\ deviceApi >= 31
  THEN [thermal_manager_ |-> acq,
        obj_power_service_ |-> obj_power_service_,
        get_thermal_headroom_ |-> get_thermal_headroom_,
        calls |-> <<Call("AThermal_acquireManager", acq, <<>>, 0)>>,
        ret |-> TRUE]
  ELSE [thermal_manager_ |-> thermal_manager_,
        obj_power_service_ |-> PowerServiceRef,
        get_thermal_headroom_ |-> mid,
        calls |-> <<Call("NewGlobalRef", PowerServiceRef, <<>>, 0)>>,
        ret |-> mid # 0]

\* hm: what APerformanceHint_getManager returns; sess: what the session
\* creation returns.
InitializePerformanceHintManager(hm, sess) ==
  IF buildApi >= 33
  THEN LET mgr == IF hint_manager_ = NULL THEN hm ELSE hint_manager_
           create == hint_session_ = NULL /\ mgr # NULL
           tid == gettid
       IN [hint_manager_ |-> mgr,
           thread_ids_ |-> IF create THEN Append(thread_ids_, tid) ELSE thread_ids_,
           hint_session_ |-> IF create THEN sess ELSE hint_session_,
           obj_perfhint_service_ |-> obj_perfhint_service_,
           obj_perfhint_session_ |-> obj_perfhint_session_,
           create_hint_session_ |-> create_hint_session_,
           set_threads_ |-> set_threads_,
           report_actual_work_duration_ |-> report_actual_work_duration_,
           update_target_work_duration_ |-> update_target_work_duration_,
           calls |-> IF create
                     THEN <<Call("createSession", sess, <<tid>>, last_target_)>>
                     ELSE <<>>,
           created |-> IF create /\ sess # NULL THEN {sess} ELSE {},
           ret |-> TRUE]
  ELSE LET tid == gettid
           ok == sess # NULL
           report == IF ok THEN MethodId ELSE report_actual_work_duration_
           update == IF ok THEN MethodId ELSE update_target_work_duration_
       IN [hint_manager_ |-> hint_manager_,
           thread_ids_ |-> thread_ids_,
           hint_session_ |-> hint_session_,
           obj_perfhint_service_ |-> HintServiceRef,
           obj_perfhint_session_ |-> IF ok THEN sess ELSE obj_perfhint_session_,
           create_hint_session_ |-> MethodId,
           set_threads_ |-> IF ok
                            THEN (IF deviceApi >= 34 THEN MethodId ELSE 0)
                            ELSE set_threads_,
           report_actual_work_duration_ |-> report,
           update_target_work_duration_ |-> update,
           calls |-> <<Call("NewGlobalRef", HintServiceRef, <<>>, 0),
                       Call("createSession", sess, <<tid>>, DEFAULT_TARGET_NS)>>,
           created |-> IF ok THEN {sess} ELSE {},
           ret |-> ~(report = 0 \/ update = 0)]

SetApplication(acq, mid, hm, sess) ==
  LET pm == InitializePowerManager(acq, mid)
      ph == InitializePerformanceHintManager(hm, sess)
  IN /\ ~destroyed
     /\ setApps < MaxSetApp
     /\ Len(thread_ids_) < MaxThreads
     /\ app_' = 1
     /\ thermal_manager_' = pm.thermal_manager_
     /\ obj_power_service_' = pm.obj_power_service_
     /\ get_thermal_headroom_' = pm.get_thermal_headroom_
     /\ hint_manager_' = ph.hint_manager_
     /\ thread_ids_' = ph.thread_ids_
     /\ hint_session_' = ph.hint_session_
     /\ obj_perfhint_service_' = ph.obj_perfhint_service_
     /\ obj_perfhint_session_' = ph.obj_perfhint_session_
     /\ create_hint_session_' = ph.create_hint_session_
     /\ set_threads_' = ph.set_threads_
     /\ report_actual_work_duration_' = ph.report_actual_work_duration_
     /\ update_target_work_duration_' = ph.update_target_work_duration_
     /\ open' = open \cup ph.created
     /\ calls' = pm.calls \o ph.calls
     /\ lastOp' = Op("SetApplication", 0)
     /\ prevSession' = Session
     /\ notified' = <<>>
     /\ refreshed' = 0
     /\ setApps' = setApps + 1
     /\ degraded' = ((IF buildApi >= 33 THEN ph.hint_session_
                      ELSE ph.obj_perfhint_session_) = NULL)
     /\ follow' = NoFollow
     /\ UNCHANGED <<cfgVars, raceVars, frameHist, cbRegistered, pending, now,
                    destroyed, thermal_status_, thermal_headroom_,
                    last_clock_, thermalListener, perf_start_, last_target_,
                    argHist, regHist, refreshAt, beginAt, endFrom,
                    lastEndTarget>>

\* ------------------------------------------------------- frame reporting
\* BeginPerfHintSession as it would be if a Begin inside a begun frame kept
\* the start already taken.
BeginPerfHintSession_KeepsFirst ==
  /\ ~destroyed
  /\ perf_start_' = IF beginAt = NoTime THEN now ELSE perf_start_
  /\ beginAt' = now
  /\ beginFirst' = IF beginAt = NoTime THEN now ELSE beginFirst
  /\ lastBegin' = now
  /\ lastOp' = Op("BeginPerfHintSession", 0)
  /\ prevSession' = Session
  /\ calls' = <<>>
  /\ notified' = <<>>
  /\ refreshed' = 0
  /\ UNCHANGED <<cfgVars, raceVars, endFirst, now, destroyed, app_, thermalVars,
                 thread_ids_,
                 hint_manager_, hint_session_, last_target_,
                 obj_perfhint_service_, obj_perfhint_session_,
                 create_hint_session_, set_threads_,
                 report_actual_work_duration_, update_target_work_duration_,
                 platformVars, setApps, argHist, regHist, refreshAt,
                 endFrom, lastEndTarget, degraded, follow>>

BeginPerfHintSession ==
  /\ ~destroyed
  /\ perf_start_' = now
  /\ beginAt' = now
  /\ beginFirst' = IF beginAt = NoTime THEN now ELSE beginFirst
  /\ lastBegin' = now
  /\ lastOp' = Op("BeginPerfHintSession", 0)
  /\ prevSession' = Session
  /\ calls' = <<>>
  /\ notified' = <<>>
  /\ refreshed' = 0
  /\ UNCHANGED <<cfgVars, raceVars, endFirst, now, destroyed, app_, thermalVars,
                 thread_ids_,
                 hint_manager_, hint_session_, last_target_,
                 obj_perfhint_service_, obj_perfhint_session_,
                 create_hint_session_, set_threads_,
                 report_actual_work_duration_, update_target_work_duration_,
                 platformVars, setApps, argHist, regHist, refreshAt,
                 endFrom, lastEndTarget, degraded, follow>>

\* EndCalls as it would be if the stored target were sent in place of the
\* argument.
EndCalls_StoredTarget(target_duration_ns) ==
  LET perf_end == now
      duration_ns == perf_end - perf_start_
  IN IF buildApi >= 33
     THEN <<Call("reportActualWorkDuration", hint_session_, <<>>, duration_ns),
            Call("updateTargetWorkDuration", hint_session_, <<>>, last_target_)>>
     ELSE IF obj_perfhint_session_ # NULL
     THEN <<Call("reportActualWorkDuration", obj_perfhint_session_, <<>>,
                 duration_ns),
            Call("updateTargetWorkDuration", obj_perfhint_session_, <<>>,
                 DEFAULT_TARGET_NS)>>
     ELSE <<>>

\* The platform calls EndPerfHintSession makes.
EndCalls(target_duration_ns) ==
  LET perf_end == now
      duration_ns == perf_end - perf_start_
  IN IF buildApi >= 33
     THEN <<Call("reportActualWorkDuration", hint_session_, <<>>, duration_ns),
            Call("updateTargetWorkDuration", hint_session_, <<>>,
                 target_duration_ns)>>
     ELSE IF obj_perfhint_session_ # NULL
     THEN <<Call("reportActualWorkDuration", obj_perfhint_session_, <<>>,
                 duration_ns),
            Call("updateTargetWorkDuration", obj_perfhint_session_, <<>>,
                 target_duration_ns)>>
     ELSE <<>>

\* EndPerfHintSession as it would be if it consumed the start timestamp,
\* leaving the time of the End in its place.
EndPerfHintSession_Consumes(target_duration_ns, raises) ==
  /\ ~destroyed
  /\ calls' = EndCalls(target_duration_ns)
  /\ perf_start_' = now
  /\ pending' = (pending \/ (buildApi < 33 /\
                   \E k \in 1..Len(EndCalls(target_duration_ns)) :
                      EndCalls(target_duration_ns)[k].fn \in raises))
  /\ endFrom' = beginAt
  /\ beginAt' = NoTime
  /\ endFirst' = beginFirst
  /\ beginFirst' = NoTime
  /\ lastEndTarget' = target_duration_ns
  /\ lastOp' = Op("EndPerfHintSession", target_duration_ns)
  /\ prevSession' = Session
  /\ notified' = <<>>
  /\ refreshed' = 0
  /\ UNCHANGED <<cfgVars, raceVars, lastBegin, now, destroyed, app_, thermalVars,
                 thread_ids_, hint_manager_, hint_session_, last_target_,
                 obj_perfhint_service_, obj_perfhint_session_,
                 create_hint_session_, set_threads_,
                 report_actual_work_duration_, update_target_work_duration_,
                 open, cbRegistered, setApps, argHist, regHist,
                 refreshAt, degraded, follow>>

\* raises: the reflective calls that throw in Java during this operation.
\* Neither CallVoidMethod of EndPerfHintSession is followed by an
\* ExceptionCheck.
EndPerfHintSession(target_duration_ns, raises) ==
  /\ ~destroyed
  /\ calls' = EndCalls(target_duration_ns)
  /\ pending' = (pending \/ (buildApi < 33 /\
                   \E k \in 1..Len(EndCalls(target_duration_ns)) :
                      EndCalls(target_duration_ns)[k].fn \in raises))
  /\ endFrom' = beginAt
  /\ beginAt' = NoTime
  /\ endFirst' = beginFirst
  /\ beginFirst' = NoTime
  /\ lastEndTarget' = target_duration_ns
  /\ lastOp' = Op("EndPerfHintSession", target_duration_ns)
  /\ prevSession' = Session
  /\ notified' = <<>>
  /\ refreshed' = 0
  /\ UNCHANGED <<cfgVars, raceVars, lastBegin, now, destroyed, app_, thermalVars,
                 hintVars, open, cbRegistered, setApps, argHist, regHist,
                 refreshAt, degraded, follow>>

\* ------------------------------------------------------------ thread set
\* ids: thread_ids_ as the caller has just left it; sess: what a session
\* creation returns, should one be made; raises: the reflective calls that
\* throw in Java.  Only the reflective setThreads call is followed by
\* ExceptionCheck / ExceptionClear; a createHintSession that throws returns no
\* object.
RegisterThreadIdsToHintSession(ids, sess, raises) ==
  IF buildApi >= 34
  THEN [hint_session_ |-> hint_session_,
        obj_perfhint_session_ |-> obj_perfhint_session_,
        calls |-> <<Call("setThreads", hint_session_, ids, 0)>>,
        closed |-> {}, created |-> {}, pending |-> pending]
  ELSE IF buildApi >= 33
  THEN LET new == IF hint_manager_ = NULL THEN NULL ELSE sess
       IN [hint_session_ |-> new,
           obj_perfhint_session_ |-> obj_perfhint_session_,
           calls |-> (IF hint_session_ # NULL
                      THEN <<Call("closeSession", hint_session_, <<>>, 0)>>
                      ELSE <<>>)
                     \o <<Call("createSession", new, ids, last_target_)>>,
           closed |-> IF hint_session_ # NULL THEN {hint_session_} ELSE {},
           created |-> IF new # NULL THEN {new} ELSE {},
           pending |-> pending]
  ELSE IF set_threads_ = 0
  THEN LET new == IF "createSession" \in raises THEN NULL ELSE sess
       IN [hint_session_ |-> hint_session_,
           obj_perfhint_session_ |-> new,
           calls |-> (IF obj_perfhint_session_ # NULL
                      THEN <<Call("DeleteGlobalRef", obj_perfhint_session_,
                                  <<>>, 0)>>
                      ELSE <<>>)
                     \o <<Call("createSession", new, ids, DEFAULT_TARGET_NS)>>,
           closed |-> IF obj_perfhint_session_ # NULL
                      THEN {obj_perfhint_session_} ELSE {},
           created |-> IF new # NULL THEN {new} ELSE {},
           pending |-> (pending \/ "createSession" \in raises)]
  ELSE [hint_session_ |-> hint_session_,
        obj_perfhint_session_ |-> obj_perfhint_session_,
        calls |-> <<Call("setThreads", obj_perfhint_session_, ids, 0)>>,
        closed |-> {}, created |-> {}, pending |-> FALSE]

\* The assignments AddThreadIdToHintSession and RemoveThreadIdFromHintSession
\* share: the new vector and its synchronization.
SyncThreads(ids, sess, raises) ==
  LET reg == RegisterThreadIdsToHintSession(ids, sess, raises)
  IN /\ thread_ids_' = ids
     /\ pending' = reg.pending
     /\ hint_session_' = reg.hint_session_
     /\ obj_perfhint_session_' = reg.obj_perfhint_session_
     /\ calls' = reg.calls
     /\ open' = (open \ reg.closed) \cup reg.created
     /\ notified' = <<>>
     /\ refreshed' = 0
     /\ UNCHANGED <<cfgVars, raceVars, frameHist, cbRegistered, now, destroyed,
                    app_, thermalVars, perf_start_, hint_manager_,
                    last_target_, obj_perfhint_service_,
                    create_hint_session_, set_threads_,
                    report_actual_work_duration_, update_target_work_duration_,
                    setApps, argHist, regHist, refreshAt, beginAt, endFrom,
                    lastEndTarget, degraded>>

\* AddThreadIdToHintSession as it would be if a tid already in the vector
\* were not appended again.
AddThreadIdToHintSession_Unique(tid, sess, track, raises) ==
  /\ ~destroyed
  /\ app_ # NULL
  /\ Len(thread_ids_) < MaxThreads
  /\ SyncThreads(IF tid \in Range(thread_ids_) THEN thread_ids_
                 ELSE Append(thread_ids_, tid), sess, raises)
  /\ lastOp' = Op("AddThreadIdToHintSession", tid)
  /\ prevSession' = Session
  /\ follow' = IF follow.tid # NULL /\ ~follow.done
               THEN [follow EXCEPT !.base = Append(@, tid)]
               ELSE IF track
               THEN [tid |-> tid, base |-> thread_ids_, done |-> FALSE]
               ELSE NoFollow

\* track: whether this Add is the one followed up to its Remove.
AddThreadIdToHintSession(tid, sess, track, raises) ==
  /\ ~destroyed
  /\ app_ # NULL
  /\ Len(thread_ids_) < MaxThreads
  /\ SyncThreads(Append(thread_ids_, tid), sess, raises)
  /\ lastOp' = Op("AddThreadIdToHintSession", tid)
  /\ prevSession' = Session
  /\ follow' = IF follow.tid # NULL /\ ~follow.done
               THEN [follow EXCEPT !.base = Append(@, tid)]
               ELSE IF track
               THEN [tid |-> tid, base |-> thread_ids_, done |-> FALSE]
               ELSE NoFollow

RemoveThreadIdFromHintSession(tid, sess, raises) ==
  /\ ~destroyed
  /\ app_ # NULL
  /\ SyncThreads(Erase(thread_ids_, tid), sess, raises)
  /\ lastOp' = Op("RemoveThreadIdFromHintSession", tid)
  /\ prevSession' = Session
  /\ follow' = IF follow.tid = tid /\ ~follow.done
               THEN [follow EXCEPT !.done = TRUE]
               ELSE NoFollow

\* --------------------------------------------------------------- teardown
\* The release calls ~ADPFManager makes.  The AThermal_releaseManager step is
\* under "#if __ANDROID_API >= 30", a macro no build defines, so it is never
\* compiled in.
DtorCalls ==
  IF app_ # NULL
  THEN (IF obj_power_service_ # NULL
        THEN <<Call("DeleteGlobalRef", obj_power_service_, <<>>, 0)>> ELSE <<>>)
       \o
       (IF buildApi >= 33
        THEN (IF hint_session_ # NULL
              THEN <<Call("closeSession", hint_session_, <<>>, 0)>> ELSE <<>>)
        ELSE (IF obj_perfhint_service_ # NULL
              THEN <<Call("DeleteGlobalRef", obj_perfhint_service_, <<>>, 0)>>
              ELSE <<>>)
             \o
             (IF obj_perfhint_session_ # NULL
              THEN <<Call("DeleteGlobalRef", obj_perfhint_session_, <<>>, 0)>>
              ELSE <<>>))
  ELSE <<>>

Teardown ==
  /\ ~destroyed
  /\ destroyed' = TRUE
  /\ calls' = DtorCalls
  /\ open' = IF app_ # NULL THEN open \ {Session} ELSE open
  /\ lastOp' = Op("~ADPFManager", 0)
  /\ prevSession' = Session
  /\ notified' = <<>>
  /\ refreshed' = 0
  /\ UNCHANGED <<cfgVars, raceVars, frameHist, cbRegistered, pending, now, app_,
                 thermalVars, hintVars, histVars>>

\* ------------------------------------------------------------------ specs
InitInputs ==
  \E acq \in {NULL, ThermalManagerHandle}, mid \in {0, MethodId},
     hm \in {NULL, HintManagerHandle}, sess \in NewSessionResults :
    SetApplication(acq, mid, hm, sess)

\* SetApplication on a platform whose thermal side answers: only the outcome
\* of the hint-manager half varies.
InitHintInputs ==
  \E hm \in {NULL, HintManagerHandle}, sess \in NewSessionResults :
    SetApplication(ThermalManagerHandle, MethodId, hm, sess)

\* Thermal status pushes and listener registration.
NextStatus ==
  \/ \E i \in Statuses : SetThermalStatus(i)
  \/ \E l \in Listeners \cup {NULL} : SetThermalListener(l)

SpecStatus == Init /\ [][NextStatus]_vars

\* C1: after every SetThermalStatus(v) call GetThermalStatus() returns v, and
\* the call invokes the registered listener (if any) exactly once, with
\* (previous, current) = (the value set by the call before, v), the first
\* previous being 0; it does so also when previous = current.
C1_StatusAndSingleNotification ==
  /\ GetThermalStatus = argHist[2]
  /\ lastOp.op = "SetThermalStatus" =>
       /\ lastOp.arg = argHist[2]
       /\ notified = IF regHist[2] # NULL
                     THEN <<[l |-> regHist[2], prev |-> argHist[1],
                             cur |-> argHist[2]]>>
                     ELSE <<>>

\* A call that set the value already set, and notified the listener of it.
C1_Witness ==
  /\ lastOp.op = "SetThermalStatus"
  /\ argHist = <<2, 2>>
  /\ GetThermalStatus = 2
  /\ Len(notified) = 1
  /\ notified[1].prev = 2 /\ notified[1].cur = 2

\* C3: a SetThermalStatus call invokes no listener but the one passed to the
\* last SetThermalListener call, and none at all when that was NULL: a
\* replaced listener is not invoked again.
C3_LastRegistrationWins ==
  lastOp.op = "SetThermalStatus" =>
    /\ \A k \in 1..Len(notified) : notified[k].l = regHist[2]
    /\ regHist[2] = NULL <=> notified = <<>>

\* Listener 2 replaced listener 1 and is the one a status change invoked.
C3_Witness ==
  /\ lastOp.op = "SetThermalStatus"
  /\ regHist = <<1, 2>>
  /\ Len(notified) = 1
  /\ notified[1].l = 2

\* The polled thermal headroom.
NextMonitor ==
  \/ Tick
  \/ InitInputs
  \/ \E h \in Headrooms : Monitor(h)

SpecMonitor == Init /\ [][NextMonitor]_vars

\* C2: Monitor is rate-limited by the threshold.  Two headroom refreshes
\* (calls of UpdateThermalStatusHeadRoom) are never less than the threshold
\* apart, the construction counting as the first, so the Monitor calls of any
\* window shorter than the threshold make at most one; and a Monitor call makes
\* exactly one when the threshold has elapsed since the last refresh, none
\* otherwise.
C2_MonitorRateLimited ==
  /\ refreshAt[1] # NoTime =>
       refreshAt[2] - refreshAt[1] >= kThermalHeadroomUpdateThreshold
  /\ lastOp.op = "Monitor" =>
       /\ refreshed \in {0, 1}
       /\ refreshed = 1 => refreshAt[2] = now
       /\ refreshed = 0 => now - refreshAt[2] < kThermalHeadroomUpdateThreshold
       /\ Len(calls) <= refreshed

\* A Monitor call that refreshed, after an earlier Monitor call had.
C2_Witness ==
  /\ lastOp.op = "Monitor"
  /\ refreshed = 1
  /\ refreshAt[1] > 1
  /\ refreshAt[2] = now
  /\ Len(calls) = 1

\* C12: for every build and device API level, a Monitor call that is due
\* after SetApplication refreshes the headroom through the tier
\* InitializePowerManager set up: by one query on the thermal manager handle
\* if that was acquired, else by one call of the resolved getThermalHeadroom
\* method on the power service, and through no tier that was not set up.
C12_RefreshThroughInitializedTier ==
  (lastOp.op = "Monitor" /\ refreshed = 1 /\ app_ # NULL) =>
    calls = IF thermal_manager_ # NULL
            THEN <<Call("AThermal_getThermalHeadroom", thermal_manager_, <<>>,
                        kThermalHeadroomUpdateThreshold)>>
            ELSE IF get_thermal_headroom_ # 0
            THEN <<Call("getThermalHeadroom", obj_power_service_, <<>>,
                        kThermalHeadroomUpdateThreshold)>>
            ELSE <<>>

\* No thermal tier is usable: no application was set, or the initialization
\* neither acquired the thermal manager nor resolved getThermalHeadroom.
ThermalAbsent ==
  \/ app_ = NULL
  \/ thermal_manager_ = NULL /\ get_thermal_headroom_ = 0

\* C13: while no thermal tier is usable (and none has been before), a Monitor
\* call makes no platform headroom query and GetThermalHeadroom() is 0.
C13_AbsentCapabilityNoQuery ==
  (setApps <= 1 /\ ThermalAbsent) =>
    /\ GetThermalHeadroom = 0
    /\ lastOp.op = "Monitor" => calls = <<>>

\* The poll next to the pushed status and a registered listener, on a
\* coordinator as constructed.
NextPoll ==
  \/ Tick
  \/ \E h \in Headrooms : Monitor(h)
  \/ \E l \in Listeners : SetThermalListener(l)
  \/ \E i \in Statuses : nativeThermalStatusChanged(i)

SpecPoll == Init /\ [][NextPoll]_vars

\* C14 as stated: a due Monitor call passes through SetThermalStatus, so with
\* a listener registered it notifies that listener once.
C14_PollNotifiesListener ==
  (lastOp.op = "Monitor" /\ refreshed = 1 /\ thermalListener # NULL) =>
    /\ Len(notified) = 1
    /\ notified[1].l = thermalListener

\* C14: SetThermalStatus is reached from the pushed callbacks only.  A Monitor
\* call, due or not, leaves the cached thermal status at the value last pushed
\* and invokes no listener; a due one refreshes the headroom alone.
C14_PollLeavesStatus ==
  /\ lastOp.op = "Monitor" =>
       /\ notified = <<>>
       /\ GetThermalStatus = argHist[2]
  /\ notified # <<>> => lastOp.op = "SetThermalStatus"

\* A due Monitor call with a listener registered and status 2 cached: the
\* status stayed and the listener was not invoked.
C14_Witness ==
  /\ lastOp.op = "Monitor"
  /\ refreshed = 1
  /\ thermalListener # NULL
  /\ GetThermalStatus = 2
  /\ notified = <<>>

\* The per-frame reporting.
NextFrame ==
  \/ Tick
  \/ InitHintInputs
  \/ BeginPerfHintSession
  \/ \E t \in Targets : EndPerfHintSession(t, {})

SpecFrame == Init /\ [][NextFrame]_vars

\* C4: with a session, BeginPerfHintSession followed by
\* EndPerfHintSession(targetNs) issues to that session exactly two calls: first
\* one report of the time elapsed since the Begin, which is >= 0, then one
\* target update carrying targetNs.
C4_ReportThenTargetUpdate ==
  (lastOp.op = "EndPerfHintSession" /\ Session # NULL /\ endFrom # NoTime) =>
    /\ now - endFrom >= 0
    /\ calls = <<Call("reportActualWorkDuration", Session, <<>>, now - endFrom),
                 Call("updateTargetWorkDuration", Session, <<>>, lastOp.arg)>>

\* An End that closed a frame begun two ticks earlier, with a target other
\* than the default.
C4_Witness ==
  /\ lastOp = Op("EndPerfHintSession", OtherTarget)
  /\ Session # NULL
  /\ endFrom # NoTime
  /\ now - endFrom = 2
  /\ Len(calls) = 2
  /\ calls[1].arg = 2

\* C17: BeginPerfHintSession is not reentrant.  With a session, after Begin,
\* a later Begin and then End, exactly one duration is reported, and it is the
\* time since the second Begin, not the longer time since the first.
C17_NestedBeginMeasuresFromSecond ==
  (/\ lastOp.op = "EndPerfHintSession"
   /\ Session # NULL
   /\ endFirst # NoTime /\ endFirst < endFrom) =>
    /\ Count({"reportActualWorkDuration"}) = 1
    /\ calls[1].fn = "reportActualWorkDuration"
    /\ calls[1].arg = now - endFrom
    /\ calls[1].arg < now - endFirst

\* Begin, a tick, Begin, a tick, End: the one report carries one tick.
C17_Witness ==
  /\ lastOp.op = "EndPerfHintSession"
  /\ Session # NULL
  /\ endFirst # NoTime
  /\ endFrom - endFirst = 1
  /\ now - endFrom = 1
  /\ Count({"reportActualWorkDuration"}) = 1
  /\ calls[1].arg = 1

\* C18 as stated: the start timestamp is consumed by EndPerfHintSession, so an
\* End with no Begin since the End before it reports no duration measured from
\* an earlier frame's Begin.
C18_StartConsumedByEnd ==
  (/\ lastOp.op = "EndPerfHintSession"
   /\ endFrom = NoTime
   /\ lastBegin >= 1 /\ now > lastBegin) =>
    \A k \in 1..Len(calls) :
       calls[k].fn = "reportActualWorkDuration" => calls[k].arg # now - lastBegin

\* C18: the start timestamp is kept across EndPerfHintSession.  With a session,
\* an End with no Begin since the End before it (or since construction) makes
\* its report and target update all the same, the duration being the time
\* since the latest Begin there ever was, or since the epoch of the clock if
\* there was none.
C18_StartKeptAcrossEnd ==
  (lastOp.op = "EndPerfHintSession" /\ Session # NULL /\ endFrom = NoTime) =>
    calls = <<Call("reportActualWorkDuration", Session, <<>>, now - lastBegin),
              Call("updateTargetWorkDuration", Session, <<>>, lastOp.arg)>>

\* Begin, End, two ticks, End: the second End reports a duration measured from
\* the Begin of the frame already ended.
C18_Witness ==
  /\ lastOp.op = "EndPerfHintSession"
  /\ Session # NULL
  /\ endFrom = NoTime
  /\ lastBegin >= 1
  /\ now - lastBegin >= 2
  /\ Len(calls) = 2
  /\ calls[1].arg = now - lastBegin

\* C5: on every capability tier, EndPerfHintSession makes no platform call
\* when there is no session.
C5_NoSessionNoPlatformCall ==
  (lastOp.op = "EndPerfHintSession" /\ Session = NULL) => calls = <<>>

\* The session through thread-set changes, frame reports and teardown.
NextThreads ==
  \/ InitInputs
  \/ \E t \in Targets : EndPerfHintSession(t, {})
  \/ \E tid \in Tids, sess \in NewSessionResults :
       AddThreadIdToHintSession(tid, sess, FALSE, {})
  \/ \E tid \in Tids, sess \in NewSessionResults :
       RemoveThreadIdFromHintSession(tid, sess, {})
  \/ Teardown

SpecThreads == Init /\ [][NextThreads]_vars

\* C7: on the session-recreation tier (__ANDROID_API__ 33) each
\* AddThreadIdToHintSession makes one close of the existing session, then one
\* creation carrying the full thread list and the target last passed to
\* EndPerfHintSession (the default if none was).
C7_RecreateWithLastTarget ==
  (buildApi = 33 /\ lastOp.op = "AddThreadIdToHintSession"
   /\ prevSession # NULL) =>
    /\ Len(calls) = 2
    /\ calls[1] = Call("closeSession", prevSession, <<>>, 0)
    /\ calls[Len(calls)].fn = "createSession"
    /\ calls[Len(calls)].tids = thread_ids_
    /\ calls[Len(calls)].arg = lastEndTarget

\* C8: once SetApplication has left the coordinator without a session, no
\* EndPerfHintSession, AddThreadIdToHintSession or
\* RemoveThreadIdFromHintSession creates a session, and there stays none.
C8_NoSessionIsPermanent ==
  (degraded /\ lastOp.op \in {"EndPerfHintSession", "AddThreadIdToHintSession",
                              "RemoveThreadIdFromHintSession"}) =>
    /\ Count({"createSession"}) = 0
    /\ Session = NULL

\* C9: at most one session is open, and an open session is the one the
\* coordinator refers to.
C9_AtMostOneOpenSession ==
  /\ Cardinality(open) <= 1
  /\ ~destroyed => open \subseteq {Session}

\* C10: teardown releases each handle the coordinator holds exactly once and
\* makes no release call for a handle it does not hold.
C10_TeardownReleasesWhatIsHeld ==
  lastOp.op = "~ADPFManager" =>
    /\ Count({"AThermal_releaseManager"}) =
         (IF thermal_manager_ # NULL THEN 1 ELSE 0)
    /\ CountOn({"DeleteGlobalRef"}, PowerServiceRef) =
         (IF obj_power_service_ # NULL THEN 1 ELSE 0)
    /\ CountOn({"DeleteGlobalRef"}, HintServiceRef) =
         (IF obj_perfhint_service_ # NULL THEN 1 ELSE 0)
    /\ CountOn({"closeSession", "DeleteGlobalRef"}, Session) =
         (IF Session # NULL THEN 1 ELSE 0)
    /\ \A k \in 1..Len(calls) : calls[k].h # NULL

\* The reflective calls one operation can find throwing: none, or one of them.
RaiseSets ==
  {{}, {"reportActualWorkDuration"}, {"updateTargetWorkDuration"},
   {"setThreads"}, {"createSession"}}

\* Frame reports and thread-set changes on a platform whose reflective calls
\* can throw.
NextExceptions ==
  \/ InitInputs
  \/ \E r \in RaiseSets : EndPerfHintSession(DEFAULT_TARGET_NS, r)
  \/ \E tid \in Tids, sess \in NewSessionResults, r \in RaiseSets :
       AddThreadIdToHintSession(tid, sess, FALSE, r)
  \/ \E tid \in Tids, sess \in NewSessionResults, r \in RaiseSets :
       RemoveThreadIdFromHintSession(tid, sess, r)

SpecExceptions == Init /\ [][NextExceptions]_vars

\* C15: on the reflective tier no Java exception is pending when
\* EndPerfHintSession, AddThreadIdToHintSession or
\* RemoveThreadIdFromHintSession has returned, whichever reflective call threw.
C15_NoExceptionLeftPending ==
  (buildApi < 33 /\ lastOp.op \in {"EndPerfHintSession",
                                    "AddThreadIdToHintSession",
                                    "RemoveThreadIdFromHintSession"}) =>
    ~pending

\* The thread set alone, with one Add followed up to its Remove.
NextSet ==
  \/ InitHintInputs
  \/ \E tid \in Tids, sess \in NewSessionResults, track \in BOOLEAN :
       AddThreadIdToHintSession(tid, sess, track, {})
  \/ \E tid \in Tids, sess \in NewSessionResults :
       RemoveThreadIdFromHintSession(tid, sess, {})

SpecSet == Init /\ [][NextSet]_vars

\* C6 as stated: whatever the thread set and the tid, after Add(tid), further
\* Adds and Remove(tid), the synchronized thread set is the set there would be
\* without that Add.
C6_AddRemoveRestoresAnySet ==
  (follow.done /\ lastOp = Op("RemoveThreadIdFromHintSession", follow.tid)) =>
    Range(Synced) = Range(follow.base)

\* C6: for a tid that is not in the thread set and is not added a second
\* time, after Add(tid), further Adds and Remove(tid), the one synchronization
\* the Remove makes carries, as a set, the set there would be without that Add.
C6_AddRemoveRestoresSet ==
  (/\ follow.done
   /\ lastOp = Op("RemoveThreadIdFromHintSession", follow.tid)
   /\ follow.tid \notin Range(follow.base)) =>
    /\ Count({"setThreads", "createSession"}) = 1
    /\ Range(Synced) = Range(follow.base)
    /\ Range(thread_ids_) = Range(follow.base)

\* add(100), add(200), remove(100) on an empty set: {200} is synchronized.
C6_Witness ==
  /\ follow = [tid |-> 100, base |-> <<200>>, done |-> TRUE]
  /\ lastOp = Op("RemoveThreadIdFromHintSession", 100)
  /\ Range(Synced) = {200}

\* The platform thermal callback: its registration and the pushes it brings.
NextCallback ==
  \/ InitInputs
  \/ nativeRegisterThermalStatusListener
  \/ nativeUnregisterThermalStatusListener
  \/ \E l \in Listeners : SetThermalListener(l)
  \/ \E i \in Statuses : thermal_callback(i)

SpecCallback == Init /\ [][NextCallback]_vars

\* The fields of the coordinator and the state of the platform.
coordinatorVars == <<app_, thermalVars, hintVars, platformVars>>

\* C11: registering or unregistering the platform thermal callback makes its
\* one platform call, on the thermal manager handle, when that handle is
\* present, and when it is absent makes no platform call and changes nothing
\* of the coordinator or the platform, each time it is called.
C11_CallbackRegistrationGuarded ==
  [][/\ lastOp'.op = "nativeRegisterThermalStatusListener" =>
          IF thermal_manager_ # NULL
          THEN calls' = <<Call("AThermal_registerThermalStatusListener",
                               thermal_manager_, <<>>, 0)>>
          ELSE calls' = <<>> /\ UNCHANGED coordinatorVars
     /\ lastOp'.op = "nativeUnregisterThermalStatusListener" =>
          IF thermal_manager_ # NULL
          THEN calls' = <<Call("AThermal_unregisterThermalStatusListener",
                               thermal_manager_, <<>>, 0)>>
          ELSE calls' = <<>> /\ UNCHANGED coordinatorVars]_vars

\* A registration on a build and device with the native thermal API, after an
\* initialization that acquired no thermal manager: it made no call.
C11_Witness ==
  /\ lastOp.op = "nativeRegisterThermalStatusListener"
  /\ buildApi >= 30 /\ deviceApi >= 31
  /\ app_ # NULL
  /\ thermal_manager_ = NULL
  /\ calls = <<>>
  /\ ~cbRegistered

\* C19: on every tier, when the first SetApplication has created the session,
\* thread_ids_ is the thread list that session was created with, the
\* initializing thread's id alone.
C19_SequenceSeededWithInitTid ==
  (setApps = 1 /\ lastOp.op = "SetApplication" /\ Session # NULL) =>
    /\ Synced = <<gettid>>
    /\ thread_ids_ = Synced

\* The last operation made exactly one synchronization, and it carried the
\* whole of thread_ids_.
OneFullSync ==
  /\ Count({"setThreads", "createSession"}) = 1
  /\ Synced = thread_ids_

\* C16: AddThreadIdToHintSession(tid) appends tid at the end of thread_ids_,
\* present or not; RemoveThreadIdFromHintSession(tid) leaves the elements other
\* than tid, in their order; and each call makes exactly one synchronization,
\* carrying the whole resulting sequence, also when nothing was removed.
C16_AppendEraseAllOneSync ==
  [][/\ lastOp'.op = "AddThreadIdToHintSession" =>
          /\ thread_ids_' = thread_ids_ \o <<lastOp'.arg>>
          /\ OneFullSync'
     /\ lastOp'.op = "RemoveThreadIdFromHintSession" =>
          /\ thread_ids_' = SelectSeq(thread_ids_, LAMBDA x : x # lastOp'.arg)
          /\ OneFullSync']_vars

\* An Add of a tid that was already first in the sequence: it is there twice,
\* and the one synchronization carries both.
C16_Witness ==
  /\ lastOp = Op("AddThreadIdToHintSession", 100)
  /\ thread_ids_ = <<100, 200, 100>>
  /\ OneFullSync

\* ------------------------------------- SetThermalStatus, statement by statement
\* No lock or atomic guards thermal_status_ or thermalListener, so the
\* statements of two calls interleave freely.
StatusStepUnchanged ==
  UNCHANGED <<cfgVars, now, destroyed, app_, thermal_manager_, thermal_headroom_,
              last_clock_, obj_power_service_, get_thermal_headroom_,
              thermalListener, hintVars, platformVars, obsVars, histVars,
              frameHist, swapVars>>

\* A thread enters SetThermalStatus(i).
StatusEnter(t, i) ==
  /\ ~destroyed
  /\ pc[t] = "idle"
  /\ pc' = [pc EXCEPT ![t] = "read"]
  /\ loc' = [loc EXCEPT ![t] = [arg |-> i, prev |-> 0, l |-> NULL]]
  /\ raceBase' = IF \A u \in Threads : pc[u] = "idle"
                 THEN thermal_status_ ELSE raceBase
  /\ UNCHANGED <<thermal_status_, raceLog>>
  /\ StatusStepUnchanged

\* int32_t prev_status_ = thermal_status_;
StatusReadPrev(t) ==
  /\ pc[t] = "read"
  /\ loc' = [loc EXCEPT ![t].prev = thermal_status_]
  /\ pc' = [pc EXCEPT ![t] = "write"]
  /\ UNCHANGED <<thermal_status_, raceLog, raceBase>>
  /\ StatusStepUnchanged

\* thermal_status_ = i;
StatusWrite(t) ==
  /\ pc[t] = "write"
  /\ thermal_status_' = loc[t].arg
  /\ pc' = [pc EXCEPT ![t] = "test"]
  /\ UNCHANGED <<loc, raceLog, raceBase>>
  /\ StatusStepUnchanged

\* if (thermalListener != NULL)
StatusTestListener(t) ==
  /\ pc[t] = "test"
  /\ pc' = [pc EXCEPT ![t] = IF thermalListener # NULL THEN "call" ELSE "done"]
  /\ loc' = [loc EXCEPT ![t].l = thermalListener]
  /\ UNCHANGED <<thermal_status_, raceLog, raceBase>>
  /\ StatusStepUnchanged

\* thermalListener(prev_status_, current_status_);
\* thermalListener is a plain static pointer: the call goes through the value
\* the test loaded or through a second load, as the compiler chose.
StatusNotify(t) ==
  /\ pc[t] = "call"
  /\ \E l \in {loc[t].l, thermalListener} :
       raceLog' = Append(raceLog, [l |-> l, prev |-> loc[t].prev,
                                   cur |-> loc[t].arg])
  /\ pc' = [pc EXCEPT ![t] = "done"]
  /\ UNCHANGED <<thermal_status_, loc, raceBase>>
  /\ StatusStepUnchanged

\* A listener is registered before the two calls start.
RegisterBeforeCalls(l) ==
  /\ \A t \in Threads : pc[t] = "idle"
  /\ SetThermalListener(l)

\* One SetThermalStatus call on each of two threads.
NextRace ==
  \/ \E l \in Listeners : RegisterBeforeCalls(l)
  \/ \E t \in Threads, i \in Statuses : StatusEnter(t, i)
  \/ \E t \in Threads : StatusReadPrev(t)
  \/ \E t \in Threads : StatusWrite(t)
  \/ \E t \in Threads : StatusTestListener(t)
  \/ \E t \in Threads : StatusNotify(t)

SpecRace == Init /\ [][NextRace]_vars

\* The notifications made can be put in an order in which the first one's
\* previous value is the status cached before the calls, each later one's
\* previous value is the current value of the one before it, and the cached
\* status is the current value of the last.
ConsistentHistory ==
  LET n == Len(raceLog)
      Orders == {f \in [1..n -> 1..n] : \A a, b \in 1..n : f[a] = f[b] => a = b}
  IN \E f \in Orders :
       /\ raceLog[f[1]].prev = raceBase
       /\ \A k \in 2..n : raceLog[f[k]].prev = raceLog[f[k - 1]].cur
       /\ GetThermalStatus = raceLog[f[n]].cur

\* C20: when two threads have run SetThermalStatus concurrently with a
\* listener registered, the two notifications form a consistent history and
\* GetThermalStatus() is the current value of its last notification.
C20_ConcurrentHistoryConsistent ==
  ((\A t \in Threads : pc[t] = "done") /\ Len(raceLog) = Cardinality(Threads)) =>
    ConsistentHistory

\* SetThermalStatus on one thread while another registers and clears the
\* listener.
NextListenerRace ==
  \/ \E l \in Listeners \cup {NULL} : SetThermalListener(l)
  \/ \E i \in Statuses : StatusEnter("T1", i)
  \/ StatusReadPrev("T1")
  \/ StatusWrite("T1")
  \/ StatusTestListener("T1")
  \/ StatusNotify("T1")

SpecListenerRace == Init /\ [][NextListenerRace]_vars

\* C21: whatever SetThermalListener calls run beside it, SetThermalStatus
\* never calls through a null listener.
C21_NeverCallsNullListener ==
  \A k \in 1..Len(raceLog) : raceLog[k].l # NULL

\* ---------------- EndPerfHintSession beside Add/Remove, statement by statement
\* No lock guards hint_session_ / obj_perfhint_session_: the frame-loop thread
\* reports while a worker thread changes the thread set.
SwapStepUnchanged ==
  UNCHANGED <<cfgVars, now, destroyed, app_, thermalVars, perf_start_,
              hint_manager_, last_target_, obj_perfhint_service_,
              create_hint_session_, set_threads_, report_actual_work_duration_,
              update_target_work_duration_, cbRegistered, obsVars, histVars,
              frameHist, pc, loc, raceLog, raceBase>>

\* The frame-loop thread enters EndPerfHintSession(target_duration_ns).
FrameEndEnter(target_duration_ns) ==
  /\ ~destroyed
  /\ fpc = "idle"
  /\ fpc' = IF buildApi >= 33 THEN "report" ELSE "test"
  /\ floc' = [target |-> target_duration_ns, h |-> NULL, loaded |-> FALSE]
  /\ sent' = <<>>
  /\ UNCHANGED <<thread_ids_, hint_session_, obj_perfhint_session_, open,
                 pending, wpc>>
  /\ SwapStepUnchanged

\* if (obj_perfhint_session_)
FrameEndTest ==
  /\ fpc = "test"
  /\ floc' = [floc EXCEPT !.h = obj_perfhint_session_, !.loaded = TRUE]
  /\ fpc' = IF obj_perfhint_session_ # NULL THEN "report" ELSE "idle"
  /\ UNCHANGED <<thread_ids_, hint_session_, obj_perfhint_session_, open,
                 pending, wpc, sent>>
  /\ SwapStepUnchanged

\* The handle a call of EndPerfHintSession is made on: the session field as
\* it is now, or as this End loaded it before (the field is a plain member,
\* the compiler may keep the value it has).
FrameHandles == IF floc.loaded THEN {floc.h, Session} ELSE {Session}

\* reportActualWorkDuration on the session.
FrameEndReport ==
  /\ fpc = "report"
  /\ \E h \in FrameHandles :
       /\ sent' = Append(sent, [fn |-> "reportActualWorkDuration", h |-> h,
                                open |-> h \in open])
       /\ floc' = [floc EXCEPT !.h = h, !.loaded = TRUE]
  /\ fpc' = "update"
  /\ UNCHANGED <<thread_ids_, hint_session_, obj_perfhint_session_, open,
                 pending, wpc>>
  /\ SwapStepUnchanged

\* updateTargetWorkDuration on the session.
FrameEndUpdate ==
  /\ fpc = "update"
  /\ \E h \in FrameHandles :
       /\ sent' = Append(sent, [fn |-> "updateTargetWorkDuration", h |-> h,
                                open |-> h \in open])
       /\ floc' = [floc EXCEPT !.h = h, !.loaded = TRUE]
  /\ fpc' = "idle"
  /\ UNCHANGED <<thread_ids_, hint_session_, obj_perfhint_session_, open,
                 pending, wpc>>
  /\ SwapStepUnchanged

\* Where RegisterThreadIdsToHintSession starts: the one setThreads call, or
\* the close of the session that is to be replaced.
RegisterEntry ==
  IF buildApi >= 34 THEN "sync"
  ELSE IF buildApi >= 33 THEN "close"
  ELSE IF set_threads_ = 0 THEN "close" ELSE "sync"

\* thread_ids_.push_back(tid) on the worker thread.
WorkerAdd(tid) ==
  /\ ~destroyed
  /\ app_ # NULL
  /\ wpc = "idle"
  /\ Len(thread_ids_) < MaxThreads
  /\ thread_ids_' = Append(thread_ids_, tid)
  /\ wpc' = RegisterEntry
  /\ UNCHANGED <<hint_session_, obj_perfhint_session_, open, pending, fpc,
                 floc, sent>>
  /\ SwapStepUnchanged

\* thread_ids_.erase(std::remove(...)) on the worker thread.
WorkerRemove(tid) ==
  /\ ~destroyed
  /\ app_ # NULL
  /\ wpc = "idle"
  /\ thread_ids_' = Erase(thread_ids_, tid)
  /\ wpc' = RegisterEntry
  /\ UNCHANGED <<hint_session_, obj_perfhint_session_, open, pending, fpc,
                 floc, sent>>
  /\ SwapStepUnchanged

\* APerformanceHint_setThreads, or the reflective setThreads with its
\* ExceptionCheck / ExceptionClear.
WorkerSetThreads ==
  /\ wpc = "sync"
  /\ pending' = IF buildApi >= 33 THEN pending ELSE FALSE
  /\ wpc' = "idle"
  /\ UNCHANGED <<thread_ids_, hint_session_, obj_perfhint_session_, open, fpc,
                 floc, sent>>
  /\ SwapStepUnchanged

\* APerformanceHint_closeSession(hint_session_), or DeleteGlobalRef of the
\* session object, when there is a session; the field keeps the old handle.
WorkerClose ==
  /\ wpc = "close"
  /\ open' = IF Session # NULL THEN open \ {Session} ELSE open
  /\ wpc' = "create"
  /\ UNCHANGED <<thread_ids_, hint_session_, obj_perfhint_session_, pending,
                 fpc, floc, sent>>
  /\ SwapStepUnchanged

\* The creation of the replacing session and the assignment of the field.
WorkerCreate(sess) ==
  LET new == IF buildApi >= 33 /\ hint_manager_ = NULL THEN NULL ELSE sess
  IN /\ wpc = "create"
     /\ IF buildApi >= 33
        THEN hint_session_' = new /\ UNCHANGED obj_perfhint_session_
        ELSE obj_perfhint_session_' = new /\ UNCHANGED hint_session_
     /\ open' = IF new # NULL THEN open \cup {new} ELSE open
     /\ wpc' = "idle"
     /\ UNCHANGED <<thread_ids_, pending, fpc, floc, sent>>
     /\ SwapStepUnchanged

\* SetApplication runs before the two threads start.
InitBeforeThreads ==
  /\ fpc = "idle" /\ wpc = "idle"
  /\ sent = <<>>
  /\ InitHintInputs

\* The frame-loop thread ending frames while a worker changes the thread set.
NextSwap ==
  \/ InitBeforeThreads
  \/ \E t \in Targets : FrameEndEnter(t)
  \/ FrameEndTest
  \/ FrameEndReport
  \/ FrameEndUpdate
  \/ \E tid \in Tids : WorkerAdd(tid)
  \/ \E tid \in Tids : WorkerRemove(tid)
  \/ WorkerSetThreads
  \/ WorkerClose
  \/ \E sess \in NewSessionResults : WorkerCreate(sess)

SpecSwap == Init /\ [][NextSwap]_vars

\* C22: on the session-recreation paths every report and target update that
\* EndPerfHintSession issues to a session goes to one that is open at the
\* moment of the call, whatever AddThreadIdToHintSession or
\* RemoveThreadIdFromHintSession the worker thread is in.
C22_ReportsGoToOpenSession ==
  (buildApi = 33 \/ (buildApi < 33 /\ set_threads_ = 0)) =>
    \A k \in 1..Len(sent) : sent[k].h # NULL => sent[k].open

====
